---------------------------- MODULE Spec2Model ----------------------------
(***************************************************************************)
(* The quiz-solving agent of src/agent.py and its HTTP front end of        *)
(* src/main.py.                                                            *)
(*                                                                         *)
(* A run is the LangGraph state machine agent -> {tools, handle_malformed, *)
(* agent, END} compiled at src/agent.py:196-220 and driven by run_agent.   *)
(* Process-wide state (url_time, os.environ["url"], os.environ["offset"])  *)
(* is shared by every run; each run owns its message list.                 *)
(*                                                                         *)
(* Four specifications share the actions:                                  *)
(*   Spec      the whole program: /solve requests, up to MaxRuns           *)
(*             concurrent background runs, the clock;                      *)
(*   SpecLoop  one accepted run, with the wider set of Gateway responses   *)
(*             and tool outputs (token costs) that trimming depends on;    *)
(*   SpecRoute one accepted run whose first Gateway response ranges over   *)
(*             every message shape determine_next_step distinguishes;      *)
(*   SpecHttp  the front end alone, over every shape of request body.      *)
(***************************************************************************)
EXTENDS Integers, Sequences, FiniteSets, TLC

VARIABLES
    clock,       \* time.time(), in seconds
    url_time,    \* shared_store.url_time: a dict url -> start timestamp
    env_url,     \* os.environ["url"]; NoEnv while unset
    env_offset,  \* os.environ["offset"] as a number; 0 stands for the string "0"
    http,        \* the last /solve request and the status it was answered with
    scheduled,   \* number of background tasks added so far
    quiz_url,    \* per run: the argument of run_agent
    pc,          \* per run: the node to execute next, or how the run ended
    messages,    \* per run: state["messages"]
    steps,       \* per run: super-steps executed (what recursion_limit bounds)
    sent,        \* per run: the list last passed to language_model.invoke
    calls,       \* per run: number of language_model.invoke calls made
    faults,      \* per run: the calls of the last tools step that failed inside
    BASE64_STORE,   \* shared_store.BASE64_STORE: the keys of the image cache
    accepted_at,    \* per run: the timestamp stored when the run was accepted
    previous_time   \* per run: previous_time as the last agent step read it

vars == <<clock, url_time, env_url, env_offset, http, scheduled,
          quiz_url, pc, messages, steps, sent, calls, faults,
          BASE64_STORE, accepted_at, previous_time>>

shared == <<url_time, env_url, env_offset, http, scheduled, quiz_url,
            BASE64_STORE, accepted_at>>

-----------------------------------------------------------------------------
(* Bounds of the model *)

\* Background runs the model follows.
MaxRuns == 2

\* The model's value of recursion_limit; the source sets 5000.
MaxSteps == 5

\* The instants (seconds) at which the model reads the clock: the start, and
\* instants 90, 120, 150 and 180 s after instants a timestamp is taken at.
Instants == {0, 30, 120, 150, 180}

Runs == 1..MaxRuns

Urls == {"http://x/q1", "http://x/q2"}

NoEnv == "<unset>"

\* None, where a timestamp is expected
NoTime == -1

-----------------------------------------------------------------------------
(* Program constants *)

\* src/agent.py:24. 5000 in the source; the model runs it at MaxSteps.
MAX_RECURSION_DEPTH == MaxSteps

TOKEN_LIMIT == 60000

\* src/agent.py:118: time_difference >= 180
DEADLINE_SECONDS == 180

\* src/agent.py:118: (current_time - float(time_offset)) > 90
OFFSET_SECONDS == 90

\* main.AUTH_SECRET, the configured secret
AUTH_SECRET == "s3cret"

-----------------------------------------------------------------------------
(* Strings. A text is a sequence of one-character strings, so that strip()  *)
(* and concatenation are computed. " " stands for any whitespace.           *)

RECURSIVE lstrip(_)
lstrip(s) == IF s # <<>> /\ Head(s) = " " THEN lstrip(Tail(s)) ELSE s

RECURSIVE rstrip(_)
rstrip(s) ==
    IF s # <<>> /\ s[Len(s)] = " " THEN rstrip(SubSeq(s, 1, Len(s) - 1)) ELSE s

\* str.strip()
strip(s) == rstrip(lstrip(s))

END_TOKEN == <<"E", "N", "D">>

-----------------------------------------------------------------------------
(* Messages *)

\* A content payload: a plain string, or a list of parts. A part is a dict
\* with a "text" key ("text"), a dict without one ("dict", e.g. an image
\* part) or a bare string ("str").
StrContent(t) == [shape |-> "str", parts |-> <<[kind |-> "str", text |-> t]>>]

ListContent(ps) == [shape |-> "list", parts |-> ps]

TextPart(t) == [kind |-> "text", text |-> t]

DictPart == [kind |-> "dict", text |-> <<>>]

StrPart(t) == [kind |-> "str", text |-> t]

NoCalls == <<>>

Msg(type, content, tool_calls, finish_reason, tool_call_id, tokens) ==
    [type |-> type, content |-> content, tool_calls |-> tool_calls,
     finish_reason |-> finish_reason, tool_call_id |-> tool_call_id,
     tokens |-> tokens]

\* {"role": "system", "content": QUIZ_SYSTEM_PROMPT}
SystemMessage == Msg("system", StrContent(<<"QUIZ_SYSTEM_PROMPT">>), NoCalls, "", 0, 200)

\* {"role": "user", "content": ...} and HumanMessage(content=...)
HumanMessage(text, tokens) == Msg("human", StrContent(text), NoCalls, "", 0, tokens)

\* the AIMessage language_model.invoke returns
AIMessage(content, tool_calls, finish_reason) ==
    Msg("ai", content, tool_calls, finish_reason, 0, 500)

\* the ToolMessage ToolNode builds for call number id of the last AIMessage
ToolMessage(text, id, tokens) == Msg("tool", StrContent(text), NoCalls, "", id, tokens)

Last(s) == s[Len(s)]

-----------------------------------------------------------------------------
(* Routing: determine_next_step, src/agent.py:166-190 *)

\* message_content[0].get("text", ""): the first part's text when it is a
\* dict with that key, "" when it is a dict without it
FirstPartText(content) ==
    IF content.parts[1].kind = "text" THEN content.parts[1].text ELSE <<>>

IsMalformed(m) == m.finish_reason = "MALFORMED_FUNCTION_CALL"

HasToolCalls(m) == Len(m.tool_calls) > 0

\* the END check without strip()
ContentIsEnd_NoStrip(content) ==
    \/ /\ content.shape = "str"
       /\ content.parts[1].text = END_TOKEN
    \/ /\ content.shape = "list"
       /\ Len(content.parts) > 0
       /\ content.parts[1].kind \in {"text", "dict"}
       /\ FirstPartText(content) = END_TOKEN

\* checks 3 of determine_next_step: a str that strips to END, or a non-empty
\* list whose first element is a dict whose text strips to END
ContentIsEnd(content) ==
    \/ /\ content.shape = "str"
       /\ strip(content.parts[1].text) = END_TOKEN
    \/ /\ content.shape = "list"
       /\ Len(content.parts) > 0
       /\ content.parts[1].kind \in {"text", "dict"}
       /\ strip(FirstPartText(content)) = END_TOKEN

\* the tool-call check made before the malformed check
determine_next_step_ToolsFirst(last_message) ==
    IF Len(last_message.tool_calls) > 0 THEN "tools"
    ELSE IF last_message.finish_reason = "MALFORMED_FUNCTION_CALL"
    THEN "handle_malformed"
    ELSE IF ContentIsEnd(last_message.content) THEN "END"
    ELSE "agent"

\* the END check made before the tool-call check
determine_next_step_EndFirst(last_message) ==
    IF last_message.finish_reason = "MALFORMED_FUNCTION_CALL"
    THEN "handle_malformed"
    ELSE IF ContentIsEnd(last_message.content) THEN "END"
    ELSE IF Len(last_message.tool_calls) > 0 THEN "tools"
    ELSE "agent"

determine_next_step(last_message) ==
    IF IsMalformed(last_message) THEN "handle_malformed"
    ELSE IF HasToolCalls(last_message) THEN "tools"
    ELSE IF ContentIsEnd(last_message.content) THEN "END"
    ELSE "agent"

-----------------------------------------------------------------------------
(* Trimming: the trim_messages call of src/agent.py:134-141, with           *)
(* strategy="last", include_system=True, start_on="human" and the model as  *)
(* token counter (the cost of a list is the sum of its messages' costs).    *)

RECURSIVE SumTokens(_)
SumTokens(s) == IF s = <<>> THEN 0 ELSE Head(s).tokens + SumTokens(Tail(s))

Suffix(s, k) == SubSeq(s, Len(s) - k + 1, Len(s))

Max(S) == CHOOSE x \in S : \A y \in S : y <= x

\* strategy="last": the most recent messages whose cost fits the budget
KeepLast(s, budget) ==
    Suffix(s, Max({k \in 0..Len(s) : SumTokens(Suffix(s, k)) <= budget}))

\* start_on="human": drop leading messages up to the first human one
RECURSIVE StartOnHuman(_)
StartOnHuman(s) ==
    IF s # <<>> /\ Head(s).type # "human" THEN StartOnHuman(Tail(s)) ELSE s

\* include_system left out: the system message is trimmed like any other
trim_messages_NoSystem(msgs) ==
    IF msgs = <<>> THEN <<>> ELSE StartOnHuman(KeepLast(msgs, TOKEN_LIMIT))

trim_messages(msgs) ==
    IF msgs = <<>> THEN <<>>
    ELSE IF Head(msgs).type = "system"
    THEN LET remaining == IF TOKEN_LIMIT > Head(msgs).tokens
                          THEN TOKEN_LIMIT - Head(msgs).tokens ELSE 0
         IN  <<Head(msgs)>> \o StartOnHuman(KeepLast(Tail(msgs), remaining))
    ELSE StartOnHuman(KeepLast(msgs, TOKEN_LIMIT))

-----------------------------------------------------------------------------
(* The agent node's input: quiz_processing_node, src/agent.py:105-160 *)

EmptyDict == [u \in {} |-> 0]

\* the deadline compared with > in place of >=
PastDeadline_Strict(time_difference) == time_difference > DEADLINE_SECONDS

\* src/agent.py:108-111: url_time.get(os.getenv("url"))
url_time_get(current_url) ==
    IF current_url \in DOMAIN url_time THEN url_time[current_url] ELSE NoTime

\* src/agent.py:118, first disjunct
PastDeadline(time_difference) == time_difference >= DEADLINE_SECONDS

\* src/agent.py:118, second disjunct
PastOffset(current_time, time_offset) ==
    time_offset # 0 /\ current_time - time_offset > OFFSET_SECONDS

\* the offset condition tested whether or not a start time is recorded
Overrun_OffsetUnguarded(current_time) ==
    \/ /\ env_url \in DOMAIN url_time
       /\ PastDeadline(current_time - url_time[env_url])
    \/ PastOffset(current_time, env_offset)

\* the two overrun conditions taken as alternatives that exclude each other
Overrun_ExclusiveOr(current_time) ==
    /\ env_url \in DOMAIN url_time
    /\ PastDeadline(current_time - url_time[env_url])
          # PastOffset(current_time, env_offset)

\* src/agent.py:111-118: previous_time is not None and one of the two
\* overrun conditions holds
Overrun(current_time) ==
    /\ env_url \in DOMAIN url_time
    /\ \/ PastDeadline(current_time - url_time[env_url])
       \/ PastOffset(current_time, env_offset)

timeout_message == HumanMessage(<<"timeout_instruction">>, 60)

\* src/agent.py:149-150
context_reminder ==
    HumanMessage(<<"Context cleared due to length. Continue processing URL: ",
                   IF env_url = NoEnv THEN "Unknown URL" ELSE env_url>>, 40)

has_human_message(view) == \E i \in 1..Len(view) : view[i].type = "human"

\* src/agent.py:130: state["messages"] + [timeout_message]
OverrideView(msgs) == msgs \o <<timeout_message>>

\* the reminder never added
TrimmedView_NeverRemind(msgs) == trim_messages(msgs)

\* src/agent.py:134-153
TrimmedView(msgs) ==
    LET trimmed_context == trim_messages(msgs)
    IN  IF has_human_message(trimmed_context) THEN trimmed_context
        ELSE Append(trimmed_context, context_reminder)

\* what quiz_processing_node passes to language_model.invoke
AgentView(msgs, current_time) ==
    IF Overrun(current_time) THEN OverrideView(msgs) ELSE TrimmedView(msgs)

\* a state key without reducer: the update replaces the list
add_messages_Overwrite(left, right) == right

\* the add_messages reducer of QuizAgentState: new messages carry fresh ids,
\* so the update is appended
add_messages(left, right) == left \o right

-----------------------------------------------------------------------------
(* Tools. An outcome is what happens inside the tool body: "ok", "large"    *)
(* (an output past the tool's size cut) or "raise" (an exception inside the *)
(* try block). A tool returns [raised, text, tokens]: raised is TRUE only   *)
(* if the exception leaves the tool. Token costs count 4 characters a token.*)

ToolOutcomes == {"ok", "large", "raise"}

Returned(text, tokens) == [raised |-> FALSE, text |-> text, tokens |-> tokens]

Raised == [raised |-> TRUE, text |-> <<>>, tokens |-> 0]

\* download_file without its try/except
download_file_Unguarded(outcome) ==
    IF outcome = "raise" THEN Raised ELSE Returned(<<"target_filename">>, 10)

\* src/tools/download_file.py:18-31
download_file(outcome) ==
    IF outcome = "raise"
    THEN Returned(<<"Error downloading file: ", "download_error">>, 50)
    ELSE Returned(<<"target_filename">>, 10)

\* src/tools/run_code.py:44-73
run_code(outcome) ==
    CASE outcome = "raise" ->
           Returned(<<"stdout: ", "stderr: execution_error", "return_code: -1">>, 300)
      [] outcome = "large" ->
           Returned(<<"std_output[:10000]", "...truncated due to large size">>, 2500)
      [] OTHER ->
           Returned(<<"stdout", "stderr", "return_code">>, 300)

\* src/tools/web_scraper.py:7-36
get_rendered_html(outcome) ==
    CASE outcome = "raise" ->
           Returned(<<"error: Error fetching/rendering page: ", "error">>, 50)
      [] outcome = "large" ->
           Returned(<<"html_content[:300000]", "... [TRUNCATED DUE TO SIZE]">>, 75000)
      [] OTHER ->
           Returned(<<"html", "images", "url">>, 29500)

ToolNames == {"download_file", "run_code", "get_rendered_html"}

InvokeTool(name, outcome) ==
    CASE name = "download_file" -> download_file(outcome)
      [] name = "run_code" -> run_code(outcome)
      [] OTHER -> get_rendered_html(outcome)

\* the corrective message given the system role
repair_message_AsSystem ==
    Msg("system",
        StrContent(<<"SYSTEM ERROR: Your last tool call was Malformed (Invalid JSON).">>),
        NoCalls, "", 0, 40)

\* src/agent.py:96
repair_message ==
    HumanMessage(<<"SYSTEM ERROR: Your last tool call was Malformed (Invalid JSON).">>, 40)

-----------------------------------------------------------------------------
(* Gateway responses *)

Malformed == AIMessage(StrContent(<<>>), NoCalls, "MALFORMED_FUNCTION_CALL")

CallCode == AIMessage(StrContent(<<>>), <<"run_code">>, "STOP")

CallPage == AIMessage(StrContent(<<>>), <<"get_rendered_html">>, "STOP")

CallFiles == AIMessage(StrContent(<<>>), <<"download_file", "run_code">>, "STOP")

CallPages ==
    AIMessage(StrContent(<<>>), <<"get_rendered_html", "get_rendered_html">>, "STOP")

SaysEnd == AIMessage(StrContent(END_TOKEN), NoCalls, "STOP")

SaysMore == AIMessage(StrContent(<<"x">>), NoCalls, "STOP")

\* the responses of Spec
Responses == {Malformed, CallCode, SaysEnd}

\* the responses of SpecLoop
LoopResponses == {Malformed, CallPage, CallFiles, CallPages, SaysEnd, SaysMore}

\* every shape determine_next_step tells apart: the responses of SpecRoute
FinishReasons == {"", "STOP", "MALFORMED_FUNCTION_CALL"}

ToolCallLists == {NoCalls, <<"run_code">>, <<"download_file", "run_code">>}

Contents ==
    { StrContent(<<>>), StrContent(END_TOKEN),
      StrContent(<<" ", "E", "N", "D", " ">>), StrContent(<<"E", "N", "D", "x">>),
      StrContent(<<"E", " ", "N", "D">>), StrContent(<<"x">>),
      ListContent(<<>>),
      ListContent(<<TextPart(END_TOKEN)>>),
      ListContent(<<TextPart(<<" ", "E", "N", "D">>), TextPart(<<"x">>)>>),
      ListContent(<<TextPart(<<"E", "N">>), TextPart(<<"D">>)>>),
      ListContent(<<TextPart(<<>>), TextPart(END_TOKEN)>>),
      ListContent(<<DictPart, TextPart(END_TOKEN)>>),
      ListContent(<<StrPart(END_TOKEN)>>),
      ListContent(<<TextPart(<<"x">>)>>) }

AllResponses ==
    { AIMessage(c, t, f) : c \in Contents, t \in ToolCallLists, f \in FinishReasons }

-----------------------------------------------------------------------------
(* The control loop *)

Nodes == {"agent", "tools", "handle_malformed"}

\* the limit allowing one super-step more
RecursionLimitReached_OffByOne(step) == step > MAX_RECURSION_DEPTH

\* recursion_limit: no super-step runs once MAX_RECURSION_DEPTH have run
RecursionLimitReached(step) == step >= MAX_RECURSION_DEPTH

\* the override instruction returned to the state along with the response
AgentUpdate_StoresOverride(view, response) ==
    IF Last(view) = timeout_message THEN <<timeout_message, response>>
    ELSE <<response>>

\* src/agent.py:131, 160: return {"messages": [result]}
AgentUpdate(view, response) == <<response>>

\* the exception caught in the node and the agent node entered again
OnGatewayError_Retry == "agent"

\* language_model.invoke raises: nothing catches it in the node, the graph
\* or run_agent (src/agent.py:130, 158, 233-236), so the run ends there
OnGatewayError == "gateway_error"

\* The agent node and the conditional edge after it (src/agent.py:105-160,
\* 166-190, 209-218). gateway_ok = FALSE: language_model.invoke raises.
AgentStep(r, response, gateway_ok) ==
    /\ pc[r] = "agent"
    /\ ~RecursionLimitReached(steps[r])
    /\ previous_time' = [previous_time EXCEPT ![r] = url_time_get(env_url)]
    /\ sent' = [sent EXCEPT ![r] = AgentView(messages[r], clock)]
    /\ calls' = [calls EXCEPT ![r] = @ + 1]
    /\ steps' = [steps EXCEPT ![r] = @ + 1]
    /\ IF gateway_ok
       THEN LET update == AgentUpdate(AgentView(messages[r], clock), response)
                updated == add_messages(messages[r], update)
            IN  /\ messages' = [messages EXCEPT ![r] = updated]
                /\ pc' = [pc EXCEPT ![r] = determine_next_step(Last(updated))]
       ELSE /\ messages' = messages
            /\ pc' = [pc EXCEPT ![r] = OnGatewayError]
    /\ UNCHANGED <<clock, shared, faults>>

\* the node returning as soon as the first call has its result
tool_node_outputs_FirstOnly(results) ==
    IF results = <<>> THEN <<>>
    ELSE <<ToolMessage(results[1].text, 1, results[1].tokens)>>

\* ToolNode's return value: one ToolMessage per invoked call, in call order
tool_node_outputs(results) ==
    [i \in 1..Len(results) |-> ToolMessage(results[i].text, i, results[i].tokens)]

\* ToolNode(AVAILABLE_TOOLS) and the edge tools -> agent (src/agent.py:200,
\* 205): every call of the last AIMessage is invoked, and the results are
\* appended together. outcomes[i] is what happens inside call i. An
\* exception that leaves a tool leaves the node too and ends the run
\* ("tool_error"); the tools of src/tools catch theirs.
ToolsStep(r, outcomes) ==
    /\ pc[r] = "tools"
    /\ ~RecursionLimitReached(steps[r])
    /\ LET tool_calls == Last(messages[r]).tool_calls
           results == [i \in 1..Len(tool_calls) |->
                          InvokeTool(tool_calls[i], outcomes[i])]
           outputs == tool_node_outputs(results)
       IN  /\ DOMAIN outcomes = 1..Len(tool_calls)
           /\ IF \E i \in 1..Len(tool_calls) : results[i].raised
              THEN /\ messages' = messages
                   /\ pc' = [pc EXCEPT ![r] = "tool_error"]
              ELSE /\ messages' = [messages EXCEPT ![r] = add_messages(@, outputs)]
                   /\ pc' = [pc EXCEPT ![r] = "agent"]
    /\ steps' = [steps EXCEPT ![r] = @ + 1]
    /\ faults' = [faults EXCEPT ![r] = {i \in DOMAIN outcomes : outcomes[i] = "raise"}]
    /\ UNCHANGED <<clock, shared, sent, calls, previous_time>>

\* handle_json_error_node and the edge handle_malformed -> agent
\* (src/agent.py:86-99, 206)
RepairStep(r) ==
    /\ pc[r] = "handle_malformed"
    /\ ~RecursionLimitReached(steps[r])
    /\ messages' = [messages EXCEPT ![r] = add_messages(@, <<repair_message>>)]
    /\ pc' = [pc EXCEPT ![r] = "agent"]
    /\ steps' = [steps EXCEPT ![r] = @ + 1]
    /\ UNCHANGED <<clock, shared, sent, calls, faults, previous_time>>

\* the graph left waiting at the limit, no error raised
RecursionAbort_Ignored(r) ==
    /\ pc[r] \in Nodes
    /\ RecursionLimitReached(steps[r])
    /\ UNCHANGED vars

\* compiled_app.invoke raises GraphRecursionError: recursion_limit super-steps
\* ran and a node is still due (src/agent.py:233-236)
RecursionAbort(r) ==
    /\ pc[r] \in Nodes
    /\ RecursionLimitReached(steps[r])
    /\ pc' = [pc EXCEPT ![r] = "recursion_error"]
    /\ UNCHANGED <<clock, shared, messages, steps, sent, calls, faults, previous_time>>

\* time passes
Tick ==
    /\ \E t \in Instants : t > clock /\ clock' = t
    /\ UNCHANGED <<shared, pc, messages, steps, sent, calls, faults, previous_time>>

\* os.environ["offset"] is set from outside the control loop to the current
\* timestamp (the externally supplied offset of the deadline check)
SetOffset ==
    /\ clock > 0
    /\ env_offset # clock
    /\ \E r \in Runs : pc[r] \in Nodes
    /\ env_offset' = clock
    /\ UNCHANGED <<clock, url_time, env_url, http, scheduled, quiz_url,
                   pc, messages, steps, sent, calls, faults,
                   BASE64_STORE, accepted_at, previous_time>>

-----------------------------------------------------------------------------
(* The HTTP front end: process_quiz_request, src/main.py:34-57 *)

\* A request body: "unparsable" (request.json() raises), "falsy" (JSON that
\* Python holds false: {}, [], null, 0, ""), "nonobject" (any other JSON that
\* is not an object, e.g. [1]) or "object". A field of an object is absent,
\* the empty string, a non-string JSON value, or a string.
Absent == "<absent>"

NonString == "<non-string>"

UrlFields == {Absent, "", NonString} \cup Urls

SecretFields == {Absent, "", AUTH_SECRET, "wrong"}

Request(body, url, secret) == [body |-> body, url |-> url, secret |-> secret]

ObjectRequests == { Request("object", u, k) : u \in UrlFields, k \in SecretFields }

AllRequests ==
    { Request(b, Absent, Absent) : b \in {"unparsable", "falsy", "nonobject"} }
        \cup ObjectRequests

\* the requests of Spec
Requests ==
    { Request("object", u, AUTH_SECRET) : u \in Urls }
        \cup { Request("object", "http://x/q1", "wrong"),
               Request("object", NonString, AUTH_SECRET) }

\* a request that passes validation and fails at os.environ["url"] = quiz_url
ClearingRequest == Request("object", NonString, AUTH_SECRET)

NoRequest == Request("none", Absent, Absent)

\* not quiz_url, not provided_secret
Falsy(field) == field \in {Absent, ""}

\* The status the handler answers with. 500 is the server's answer to an
\* exception that is no HTTPException: request_data.get on a list or a
\* string (line 42), os.environ["url"] = <non-string> (line 52).
Status(req) ==
    CASE req.body = "unparsable" -> 400
      [] req.body = "falsy" -> 400
      [] req.body = "nonobject" -> 500
      [] Falsy(req.url) \/ Falsy(req.secret) -> 400
      [] req.secret # AUTH_SECRET -> 403
      [] req.url = NonString -> 500
      [] OTHER -> 200

\* the stores cleared before the secret is compared
PassedValidation_BeforeSecret(req) ==
    /\ req.body = "object"
    /\ ~Falsy(req.url) /\ ~Falsy(req.secret)

\* the handler got as far as line 49: url_time.clear()
PassedValidation(req) ==
    /\ req.body = "object"
    /\ ~Falsy(req.url) /\ ~Falsy(req.secret)
    /\ req.secret = AUTH_SECRET

\* run_agent's initial_message_stack, src/agent.py:228-231
initial_message_stack(url) == <<SystemMessage, HumanMessage(<<url>>, 20)>>

\* url_time left uncleared when a request is accepted
AcceptedStore_NoClear(store, url, now) ==
    [u \in DOMAIN store \cup {url} |-> IF u = url THEN now ELSE store[u]]

\* src/main.py:49, 54: url_time.clear(), then url_time[quiz_url] = time.time()
AcceptedStore(store, url, now) == [u \in {url} |-> now]

Solve(req) ==
    /\ Status(req) = 200 => scheduled < MaxRuns
    /\ http' = [req |-> req, status |-> Status(req)]
    /\ BASE64_STORE' = IF PassedValidation(req) THEN {} ELSE BASE64_STORE
    /\ IF Status(req) = 200
       THEN LET r == scheduled + 1
            IN  /\ url_time' = AcceptedStore(url_time, req.url, clock)
                /\ env_url' = req.url
                /\ env_offset' = 0
                /\ scheduled' = r
                /\ quiz_url' = [quiz_url EXCEPT ![r] = req.url]
                /\ accepted_at' = [accepted_at EXCEPT ![r] = clock]
                /\ pc' = [pc EXCEPT ![r] = "agent"]
                /\ messages' = [messages EXCEPT ![r] = initial_message_stack(req.url)]
       ELSE /\ url_time' = IF PassedValidation(req) THEN EmptyDict ELSE url_time
            /\ UNCHANGED <<env_url, env_offset, scheduled, quiz_url, accepted_at,
                           pc, messages>>
    /\ UNCHANGED <<clock, steps, sent, calls, faults, previous_time>>

\* the encode_image_to_base64 tool of a run caches an image in BASE64_STORE
CacheImage ==
    /\ \E r \in Runs : pc[r] \in Nodes
    /\ BASE64_STORE = {}
    /\ BASE64_STORE' = {"image"}
    /\ UNCHANGED <<clock, url_time, env_url, env_offset, http, scheduled,
                   quiz_url, accepted_at, pc, messages, steps, sent, calls,
                   faults, previous_time>>

-----------------------------------------------------------------------------
(* Specifications *)

Init ==
    /\ clock = 0
    /\ url_time = EmptyDict
    /\ env_url = NoEnv
    /\ env_offset = 0
    /\ http = [req |-> NoRequest, status |-> 0]
    /\ scheduled = 0
    /\ quiz_url = [r \in Runs |-> NoEnv]
    /\ pc = [r \in Runs |-> "unscheduled"]
    /\ messages = [r \in Runs |-> <<>>]
    /\ steps = [r \in Runs |-> 0]
    /\ sent = [r \in Runs |-> <<>>]
    /\ calls = [r \in Runs |-> 0]
    /\ faults = [r \in Runs |-> {}]
    /\ BASE64_STORE = {}
    /\ accepted_at = [r \in Runs |-> NoTime]
    /\ previous_time = [r \in Runs |-> NoTime]

\* the instants of Spec: the first acceptance and its deadline
RaceInstants == {0, 180}

OutcomesFor(r, choices) ==
    [1..Len(Last(messages[r]).tool_calls) -> choices]

Next ==
    \/ \E req \in Requests : Solve(req)
    \/ \E r \in Runs, response \in Responses : AgentStep(r, response, TRUE)
    \/ \E r \in Runs : pc[r] = "tools" /\
          \E outcomes \in OutcomesFor(r, {"ok"}) : ToolsStep(r, outcomes)
    \/ \E r \in Runs : RepairStep(r)
    \/ \E r \in Runs : RecursionAbort(r)
    \/ Tick /\ clock' \in RaceInstants

Spec == Init /\ [][Next]_vars

\* the state right after the first request, for http://x/q1, was accepted
InitAccepted ==
    /\ clock = 0
    /\ url_time = [u \in {"http://x/q1"} |-> 0]
    /\ env_url = "http://x/q1"
    /\ env_offset = 0
    /\ http = [req |-> Request("object", "http://x/q1", AUTH_SECRET), status |-> 200]
    /\ scheduled = 1
    /\ quiz_url = [r \in Runs |-> IF r = 1 THEN "http://x/q1" ELSE NoEnv]
    /\ pc = [r \in Runs |-> IF r = 1 THEN "agent" ELSE "unscheduled"]
    /\ messages = [r \in Runs |->
                      IF r = 1 THEN initial_message_stack("http://x/q1") ELSE <<>>]
    /\ steps = [r \in Runs |-> 0]
    /\ sent = [r \in Runs |-> <<>>]
    /\ calls = [r \in Runs |-> 0]
    /\ faults = [r \in Runs |-> {}]
    /\ BASE64_STORE = {}
    /\ accepted_at = [r \in Runs |-> IF r = 1 THEN 0 ELSE NoTime]
    /\ previous_time = [r \in Runs |-> NoTime]

NextLoop ==
    \/ \E response \in LoopResponses, ok \in BOOLEAN : AgentStep(1, response, ok)
    \/ pc[1] = "tools" /\
          \E outcomes \in OutcomesFor(1, ToolOutcomes) : ToolsStep(1, outcomes)
    \/ RepairStep(1)
    \/ RecursionAbort(1)
    \/ Tick
    \/ SetOffset

SpecLoop == InitAccepted /\ [][NextLoop]_vars

\* Every input of the deadline check varied under one run that keeps talking:
\* the clock, the offset, and the start time present or cleared.
NextGuard ==
    \/ \E response \in {SaysMore, SaysEnd} : AgentStep(1, response, TRUE)
    \/ RecursionAbort(1)
    \/ Tick
    \/ SetOffset
    \/ Solve(ClearingRequest)

SpecGuard == InitAccepted /\ [][NextGuard]_vars

\* the responses of SpecSticky: one of each route
StickyResponses == {Malformed, CallCode, SaysEnd, SaysMore}

\* one step of run r, whichever node is due
RunStep(r) ==
    \/ \E response \in StickyResponses, ok \in BOOLEAN : AgentStep(r, response, ok)
    \/ pc[r] = "tools" /\
          \E outcomes \in OutcomesFor(r, ToolOutcomes) : ToolsStep(r, outcomes)
    \/ RepairStep(r)
    \/ RecursionAbort(r)

\* no agent step of run 1 has taken the override path so far
NoOverrideYet ==
    IF sent[1] = <<>> THEN TRUE ELSE Last(sent[1]) # timeout_message

\* One run whose timing record and url/offset configuration stay as they are
\* from its first override on: the offset moves only before that.
NextSticky ==
    \/ RunStep(1)
    \/ Tick
    \/ NoOverrideYet /\ SetOffset

SpecSticky == InitAccepted /\ [][NextSticky]_vars

\* The run's thread keeps being scheduled and every node returns or raises, so
\* a step of the run that stays possible is eventually taken.
SpecTerm == InitAccepted /\ [][NextSticky]_vars /\ WF_vars(RunStep(1))

NextRoute ==
    \/ steps[1] = 0 /\ \E response \in AllResponses : AgentStep(1, response, TRUE)
    \/ Tick

SpecRoute == InitAccepted /\ [][NextRoute]_vars

NextHttp ==
    \/ \E req \in AllRequests : Solve(req)
    \/ CacheImage
    \/ SetOffset
    \/ Tick

SpecHttp == Init /\ [][NextHttp]_vars

-----------------------------------------------------------------------------
(* Properties of routing, under SpecRoute *)

\* Run r has just had a Gateway response appended: its last message is the
\* assistant message the conditional edge routed on.
Routed(r) ==
    /\ messages[r] # <<>>
    /\ Last(messages[r]).type = "ai"
    /\ pc[r] \notin {"recursion_error", "gateway_error"}

RECURSIVE Concat(_)
Concat(parts) ==
    IF parts = <<>> THEN <<>>
    ELSE (IF Head(parts).kind = "dict" THEN <<>> ELSE Head(parts).text)
             \o Concat(Tail(parts))

\* the text of a content payload, flattened: the string itself, or the texts
\* of the parts of a list joined in order
FlattenText(content) == Concat(content.parts)

\* C1: after an AGENT step, an assistant message whose completion-reason is
\* MALFORMED_FUNCTION_CALL sends the run to REPAIR (handle_malformed), never
\* to TOOLS or DONE, whatever tool calls or text it carries.
C1_MalformedGoesToRepair ==
    \A r \in Runs :
        (Routed(r) /\ Last(messages[r]).finish_reason = "MALFORMED_FUNCTION_CALL")
            => pc[r] = "handle_malformed"

\* a malformed response that also carries tool calls and the text END was
\* routed to REPAIR
C1_Witness ==
    \E r \in Runs :
        /\ Routed(r)
        /\ Last(messages[r]).finish_reason = "MALFORMED_FUNCTION_CALL"
        /\ Len(Last(messages[r]).tool_calls) > 0
        /\ Last(messages[r]).content = StrContent(END_TOKEN)
        /\ pc[r] = "handle_malformed"

\* C2 as claimed: the run is DONE if and only if the latest assistant
\* message's flattened text trims to END, for every message shape.
C2_DoneIffFlattenedEnd ==
    \A r \in Runs :
        Routed(r) =>
            (pc[r] = "END" <=> strip(FlattenText(Last(messages[r]).content)) = END_TOKEN)

\* C2 amended: the run is DONE if and only if the latest assistant message is
\* not malformed, carries no tool calls, and its content is a string that
\* trims to END or a list whose first part is a dict whose text trims to END
\* (the later parts of a list are not read).
C2_DoneIffUnroutedEnd ==
    \A r \in Runs :
        Routed(r) =>
            LET m == Last(messages[r])
                first == m.content.parts[1]
            IN  pc[r] = "END" <=>
                    /\ m.finish_reason # "MALFORMED_FUNCTION_CALL"
                    /\ m.tool_calls = <<>>
                    /\ \/ m.content.shape = "str" /\ strip(first.text) = END_TOKEN
                       \/ /\ m.content.shape = "list"
                          /\ m.content.parts # <<>>
                          /\ first.kind = "text"
                          /\ strip(first.text) = END_TOKEN

\* a multi-part list whose first part trims to END ended the run although
\* its flattened text does not trim to END
C2_Witness ==
    \E r \in Runs :
        /\ Routed(r)
        /\ pc[r] = "END"
        /\ Last(messages[r]).content.shape = "list"
        /\ Len(Last(messages[r]).content.parts) = 2
        /\ strip(FlattenText(Last(messages[r]).content)) # END_TOKEN

\* C3: after an AGENT step, an assistant message with one or more tool calls
\* and a completion-reason other than malformed sends the run to TOOLS,
\* whatever its text.
C3_ToolCallsGoToTools ==
    \A r \in Runs :
        ( /\ Routed(r)
          /\ Len(Last(messages[r]).tool_calls) >= 1
          /\ Last(messages[r]).finish_reason # "MALFORMED_FUNCTION_CALL" )
            => pc[r] = "tools"

\* a response with two tool calls and the text END was routed to TOOLS
C3_Witness ==
    \E r \in Runs :
        /\ Routed(r)
        /\ Len(Last(messages[r]).tool_calls) = 2
        /\ Last(messages[r]).content = StrContent(END_TOKEN)
        /\ Last(messages[r]).finish_reason = "STOP"
        /\ pc[r] = "tools"

-----------------------------------------------------------------------------
(* Properties of the control loop, under SpecLoop *)

\* this step is run r executing its agent node
AgentStepOf(r) == pc[r] = "agent" /\ steps'[r] = steps[r] + 1

\* this step is run r executing its tools node
ToolsStepOf(r) == pc[r] = "tools" /\ steps'[r] = steps[r] + 1

IsPrefix(a, b) == Len(a) <= Len(b) /\ SubSeq(b, 1, Len(a)) = a

RECURSIVE Count(_, _)
Count(s, m) ==
    IF s = <<>> THEN 0 ELSE (IF Head(s) = m THEN 1 ELSE 0) + Count(Tail(s), m)

\* the step appended exactly one message to run r's conversation, an
\* assistant message
AppendedResponse(r) ==
    /\ Len(messages'[r]) = Len(messages[r]) + 1
    /\ IsPrefix(messages[r], messages'[r])
    /\ Last(messages'[r]).type = "ai"

\* the user message run_agent seeds with the task URL
UrlMessage(r) == initial_message_stack(quiz_url[r])[2]

\* the last agent step of run r took the trimming path
SentTrimmed(r) == sent[r] # <<>> /\ Last(sent[r]) # timeout_message

\* C4: an AGENT step that starts with a start time recorded for the active
\* URL and at least 180 s elapsed sends the Gateway the whole stored
\* conversation (untrimmed) followed by the override instruction, which
\* occurs exactly once, makes one Gateway call, and appends the Gateway's
\* response.
C4_DeadlineOverride ==
    [][\A r \in Runs :
          ( /\ AgentStepOf(r)
            /\ env_url \in DOMAIN url_time
            /\ clock - url_time[env_url] >= 180 )
          => /\ sent'[r] = messages[r] \o <<timeout_message>>
             /\ Count(sent'[r], timeout_message) = 1
             /\ calls'[r] = calls[r] + 1
             /\ pc'[r] # "gateway_error" => AppendedResponse(r)]_vars

\* an override step sent a conversation longer than the token budget, whole,
\* and its response was appended
C4_Witness ==
    \E r \in Runs :
        /\ sent[r] = SubSeq(messages[r], 1, Len(messages[r]) - 1) \o <<timeout_message>>
        /\ SumTokens(sent[r]) > TOKEN_LIMIT
        /\ Last(messages[r]).type = "ai"
        /\ clock - url_time[env_url] >= 180

\* C5 as claimed: the ceiling counts entries into AGENT only, so a run is
\* aborted only when MAX_RECURSION_DEPTH AGENT steps have been taken.
C5_CeilingCountsAgentOnly ==
    \A r \in Runs : pc[r] = "recursion_error" => calls[r] = MAX_RECURSION_DEPTH

\* C5 amended: the ceiling counts every node execution (AGENT, TOOLS and
\* REPAIR alike). A run is aborted exactly when MAX_RECURSION_DEPTH steps
\* have run and a node is still due: never earlier, no node runs beyond the
\* ceiling, and after the abort there is no further Gateway call or message.
C5_CeilingCountsEveryStep ==
    [][\A r \in Runs :
          /\ steps'[r] <= MAX_RECURSION_DEPTH
          /\ pc'[r] = "recursion_error" =>
                steps'[r] = MAX_RECURSION_DEPTH /\ pc[r] \in Nodes \cup {"recursion_error"}
          /\ (steps[r] = MAX_RECURSION_DEPTH /\ pc[r] \in Nodes) =>
                /\ pc'[r] \in {pc[r], "recursion_error"}
                /\ calls'[r] = calls[r]
                /\ messages'[r] = messages[r]
          /\ pc[r] = "recursion_error" =>
                /\ pc'[r] = "recursion_error"
                /\ calls'[r] = calls[r]
                /\ messages'[r] = messages[r]]_vars

\* a run was aborted at the ceiling after fewer AGENT entries than the
\* ceiling, TOOLS steps having used up the rest
C5_Witness ==
    \E r \in Runs :
        /\ pc[r] = "recursion_error"
        /\ calls[r] < MAX_RECURSION_DEPTH
        /\ \E i \in 1..Len(messages[r]) : messages[r][i].type = "tool"

\* C6 as claimed: the view a non-overrun AGENT step sends to the Gateway
\* contains the leading system message and the initial task-URL message.
C6_ViewKeepsPrefix ==
    \A r \in Runs :
        SentTrimmed(r) =>
            /\ sent[r][1] = SystemMessage
            /\ \E i \in 1..Len(sent[r]) : sent[r][i] = UrlMessage(r)

\* C6 amended: the view a non-overrun AGENT step sends begins with the
\* leading system message, and contains the initial task-URL message exactly
\* when the whole stored conversation fits the token budget.
C6_ViewKeepsSystem ==
    [][\A r \in Runs :
          (AgentStepOf(r) /\ Last(sent'[r]) # timeout_message)
          => /\ sent'[r][1] = SystemMessage
             /\ Count(sent'[r], SystemMessage) = 1
             /\ (\E i \in 1..Len(sent'[r]) : sent'[r][i] = UrlMessage(r))
                    <=> SumTokens(messages[r]) <= TOKEN_LIMIT]_vars

\* a non-overrun step sent a view that starts with the system message and
\* no longer holds the task-URL message
C6_Witness ==
    \E r \in Runs :
        /\ SentTrimmed(r)
        /\ sent[r][1] = SystemMessage
        /\ \A i \in 1..Len(sent[r]) : sent[r][i] # UrlMessage(r)
        /\ Last(messages[r]).type = "ai"

\* C7: the stored conversation is append-only (every step leaves the earlier
\* messages in place and in order) and its first two messages are the system
\* prompt and the task URL the run was started with; trimming the view does
\* not touch it.
C7_ConversationAppendOnly ==
    [][\A r \in Runs :
          /\ IsPrefix(messages[r], messages'[r])
          /\ pc'[r] # "unscheduled" =>
                /\ Len(messages'[r]) >= 2
                /\ messages'[r][1] = SystemMessage
                /\ messages'[r][2] = UrlMessage(r)]_vars

\* after TOOLS and AGENT steps, one of which sent a trimmed view, the stored
\* conversation still holds all its messages
C7_Witness ==
    \E r \in Runs :
        /\ SentTrimmed(r)
        /\ Len(sent[r]) < Len(messages[r]) - 1
        /\ Len(messages[r]) >= 5
        /\ messages[r][2] = UrlMessage(r)
        /\ \E i \in 1..Len(messages[r]) : messages[r][i].type = "tool"

IsReminder(m) ==
    /\ m.type = "human"
    /\ m.content.parts[1].text[1] =
           "Context cleared due to length. Continue processing URL: "

\* C8: on a non-overrun AGENT step, if the trimmed view holds no human
\* message, the view sent is the trimmed view plus exactly one reminder that
\* names the current task URL; if it holds one, the view sent is the trimmed
\* view. Either way the stored conversation gains at most the Gateway's
\* response.
C8_UrlReminder ==
    [][\A r \in Runs :
          (AgentStepOf(r) /\ Last(sent'[r]) # timeout_message)
          => LET trimmed == trim_messages(messages[r])
                 view == sent'[r]
             IN  /\ IF \E i \in 1..Len(trimmed) : trimmed[i].type = "human"
                    THEN view = trimmed
                    ELSE /\ Len(view) = Len(trimmed) + 1
                         /\ IsPrefix(trimmed, view)
                         /\ IsReminder(Last(view))
                         /\ Last(view).content.parts[1].text[2] = env_url
                         /\ \A i \in 1..Len(trimmed) : ~IsReminder(view[i])
                 /\ messages'[r] = messages[r] \/ AppendedResponse(r)
                 /\ \A i \in 1..Len(messages'[r]) : ~IsReminder(messages'[r][i])]_vars

\* a step sent the system message and the reminder for the current URL, and
\* the stored conversation holds the response and no reminder
C8_Witness ==
    \E r \in Runs :
        /\ Len(sent[r]) = 2
        /\ sent[r][1] = SystemMessage
        /\ IsReminder(sent[r][2])
        /\ sent[r][2].content.parts[1].text[2] = env_url
        /\ Len(messages[r]) > 3
        /\ Last(messages[r]).type = "ai"
        /\ \A i \in 1..Len(messages[r]) : ~IsReminder(messages[r][i])

ErrorTexts ==
    { <<"Error downloading file: ", "download_error">>,
      <<"stdout: ", "stderr: execution_error", "return_code: -1">>,
      <<"error: Error fetching/rendering page: ", "error">> }

\* C10: a TOOLS step in which tool invocations fail internally still appends
\* one tool-role message per call, the message of a failed call holding the
\* error text, does not abort the run, and hands over to AGENT.
C10_ToolFailureNotFatal ==
    [][\A r \in Runs :
          ToolsStepOf(r)
          => LET n == Len(Last(messages[r]).tool_calls)
                 base == Len(messages[r])
             IN  /\ pc'[r] = "agent"
                 /\ Len(messages'[r]) = base + n
                 /\ IsPrefix(messages[r], messages'[r])
                 /\ \A i \in 1..n :
                       /\ messages'[r][base + i].type = "tool"
                       /\ messages'[r][base + i].tool_call_id = i
                       /\ i \in faults'[r] =>
                             messages'[r][base + i].content.parts[1].text \in ErrorTexts]_vars

\* a TOOLS step in which download_file and run_code both failed appended
\* their two error messages and handed over to AGENT
C10_Witness ==
    \E r \in Runs :
        /\ faults[r] = {1, 2}
        /\ pc[r] = "agent"
        /\ Last(messages[r]).type = "tool"
        /\ Last(messages[r]).content.parts[1].text \in ErrorTexts
        /\ messages[r][Len(messages[r]) - 1].content.parts[1].text
               = <<"Error downloading file: ", "download_error">>

-----------------------------------------------------------------------------
(* Properties of the front end, under SpecHttp *)

\* this step of SpecHttp is the handler answering a request: the clock stands,
\* no tool caches an image and none moves the offset
SolveStep ==
    /\ clock' = clock
    /\ ~(BASE64_STORE = {} /\ BASE64_STORE' # {})
    /\ ~(env_offset' # env_offset /\ env_offset' # 0)

\* C9 as claimed: a request with an unparsable or empty body, or without url
\* or secret, is answered 400; one with both fields and another secret than
\* the configured one, 403; only one with both fields and the configured
\* secret, 200; a background run is scheduled exactly when the answer is 200.
C9_SolveOutcome ==
    [][SolveStep =>
          LET req == http'.req
              status == http'.status
              both == /\ req.body = "object"
                      /\ req.url \notin {Absent, ""}
                      /\ req.secret \notin {Absent, ""}
          IN  /\ ( \/ req.body \in {"unparsable", "falsy"}
                   \/ req.url = Absent
                   \/ req.secret = Absent ) => status = 400
              /\ (both /\ req.secret # AUTH_SECRET) => status = 403
              /\ status = 200 => (both /\ req.secret = AUTH_SECRET)
              /\ status = 200 => scheduled' = scheduled + 1
              /\ status # 200 => scheduled' = scheduled]_vars


-----------------------------------------------------------------------------
(* Properties of concurrent runs and requests, under Spec *)

\* C11: when a request for another URL is accepted while run r still loops,
\* the timing record of r's URL is erased and the record and the active URL
\* are the new request's; every deadline check of an AGENT step, of whichever
\* run, then reads the start time of the most recently accepted request (or
\* none), and overrides by the time elapsed since that start, not since the
\* run's own.
C11_CrossRunCorruption ==
    [][\A r \in Runs :
          /\ ( /\ scheduled' = scheduled + 1
               /\ pc[r] \in Nodes
               /\ quiz_url[r] # env_url' )
             => /\ quiz_url[r] \notin DOMAIN url_time'
                /\ env_url' = quiz_url'[scheduled']
                /\ url_time'[env_url'] = clock
          /\ AgentStepOf(r)
             => /\ previous_time'[r] \in {NoTime, accepted_at[scheduled]}
                /\ env_url \in DOMAIN url_time
                      => /\ previous_time'[r] = accepted_at[scheduled]
                         /\ env_url = quiz_url[scheduled]
                /\ Last(sent'[r]) = timeout_message
                      <=> /\ env_url \in DOMAIN url_time
                          /\ clock - accepted_at[scheduled] >= 180]_vars

\* run r, accepted 180 s ago or more, has just made its deadline check with
\* the start time of a later request for another URL, and was not overridden
C11_Witness ==
    \E r \in Runs :
        /\ previous_time[r] \notin {NoTime, accepted_at[r]}
        /\ quiz_url[r] # env_url
        /\ clock - accepted_at[r] >= 180
        /\ SentTrimmed(r)

\* C12 as claimed: the timing record never holds more than one key; once a
\* request has been accepted it holds exactly one, the active URL, which is
\* the URL of the most recently accepted request; accepting a request resets
\* the offset to zero; and no step of the control loop writes to the record.
C12_TimingStoreShape ==
    [][/\ Cardinality(DOMAIN url_time') <= 1
       /\ scheduled' >= 1 => /\ DOMAIN url_time' = {env_url'}
                             /\ env_url' = quiz_url'[scheduled']
       /\ scheduled' = scheduled + 1 => env_offset' = 0
       /\ (\E r \in Runs : steps'[r] # steps[r] \/ pc'[r] = "recursion_error")
             => url_time' = url_time]_vars


-----------------------------------------------------------------------------
(* Properties of the single steps of a run, under SpecLoop *)

\* C13: an AGENT step whose Gateway call fails (the call is made and no
\* response comes back, on either path) appends nothing to the conversation
\* and aborts the run; an aborted run takes no further step: its position,
\* conversation, step count, Gateway calls and tool results stay as they are.
C13_GatewayFailureFatal ==
    [][\A r \in Runs :
          /\ (AgentStepOf(r) /\ messages'[r] = messages[r])
             => /\ pc'[r] = "gateway_error"
                /\ calls'[r] = calls[r] + 1
          /\ pc[r] = "gateway_error"
             => /\ pc'[r] = "gateway_error"
                /\ messages'[r] = messages[r]
                /\ steps'[r] = steps[r]
                /\ calls'[r] = calls[r]
                /\ sent'[r] = sent[r]
                /\ faults'[r] = faults[r]]_vars

\* a run aborted by a Gateway failure on the override path of a later step
C13_Witness ==
    \E r \in Runs :
        /\ pc[r] = "gateway_error"
        /\ calls[r] >= 2
        /\ sent[r] = messages[r] \o <<timeout_message>>

\* C14: a TOOLS step runs on an assistant message with n >= 1 tool calls,
\* appends exactly n tool messages, the i-th answering call i, and hands
\* over to AGENT; from TOOLS a run never goes to REPAIR or DONE; and whenever
\* an AGENT step begins, every assistant message with tool calls that was
\* routed to TOOLS is followed in the conversation by all its results.
C14_ToolsJoin ==
    [][\A r \in Runs :
          /\ ToolsStepOf(r)
             => LET n == Len(Last(messages[r]).tool_calls)
                    base == Len(messages[r])
                IN  /\ n >= 1
                    /\ pc'[r] = "agent"
                    /\ Len(messages'[r]) = base + n
                    /\ IsPrefix(messages[r], messages'[r])
                    /\ \A i \in 1..n :
                          /\ messages'[r][base + i].type = "tool"
                          /\ messages'[r][base + i].tool_call_id = i
          /\ pc[r] = "tools" => pc'[r] \notin {"handle_malformed", "END"}
          /\ AgentStepOf(r)
             => \A k \in 1..Len(messages[r]) :
                   LET m == messages[r][k]
                   IN  (m.type = "ai" /\ ~IsMalformed(m) /\ HasToolCalls(m))
                       => /\ k + Len(m.tool_calls) <= Len(messages[r])
                          /\ \A i \in 1..Len(m.tool_calls) :
                                /\ messages[r][k + i].type = "tool"
                                /\ messages[r][k + i].tool_call_id = i]_vars

\* an AGENT step has run after a TOOLS step that joined two calls, with both
\* results in the view it sent
C14_Witness ==
    \E r \in Runs :
        LET L == Len(messages[r])
        IN  /\ L >= 6
            /\ Last(messages[r]).type = "ai"
            /\ messages[r][L - 3].type = "ai"
            /\ Len(messages[r][L - 3].tool_calls) = 2
            /\ messages[r][L - 2].type = "tool" /\ messages[r][L - 2].tool_call_id = 1
            /\ messages[r][L - 1].type = "tool" /\ messages[r][L - 1].tool_call_id = 2
            /\ Len(sent[r]) >= 2
            /\ sent[r][Len(sent[r]) - 1] = messages[r][L - 2]
            /\ Last(sent[r]) = messages[r][L - 1]

\* this step is run r executing its handle_malformed node
RepairStepOf(r) == pc[r] = "handle_malformed" /\ steps'[r] = steps[r] + 1

\* C15: a REPAIR step appends exactly one message, of the human role and
\* holding the corrective text, leaves the earlier messages as they are,
\* makes no Gateway call and no tool call, and hands over to AGENT.
C15_RepairStep ==
    [][\A r \in Runs :
          RepairStepOf(r)
          => /\ Len(messages'[r]) = Len(messages[r]) + 1
             /\ IsPrefix(messages[r], messages'[r])
             /\ Last(messages'[r]).type = "human"
             /\ Last(messages'[r]).content.parts[1].text[1]
                   = "SYSTEM ERROR: Your last tool call was Malformed (Invalid JSON)."
             /\ calls'[r] = calls[r]
             /\ sent'[r] = sent[r]
             /\ faults'[r] = faults[r]
             /\ \A i \in 1..Len(messages'[r]) :
                   messages'[r][i].type = "tool" => i <= Len(messages[r])
             /\ pc'[r] = "agent"]_vars

\* a REPAIR step has just answered a malformed response that came after a
\* tool result
C15_Witness ==
    \E r \in Runs :
        LET L == Len(messages[r])
        IN  /\ pc[r] = "agent"
            /\ L >= 6
            /\ Last(messages[r]) = repair_message
            /\ IsMalformed(messages[r][L - 1])
            /\ messages[r][L - 2].type = "tool"
            /\ calls[r] = 2


-----------------------------------------------------------------------------
(* The deadline check, under SpecGuard, SpecSticky and SpecTerm *)

\* C16: with a start time recorded for the active URL, an AGENT step takes
\* the override path exactly when at least 180 s have elapsed since that
\* start or the offset is non-zero and more than 90 s old, either condition
\* sufficing alone; with no start time recorded it takes the trimming path,
\* whatever the offset.
C16_OverrideGuard ==
    [][\A r \in Runs :
          AgentStepOf(r)
          => LET recorded == env_url \in DOMAIN url_time
                 elapsed == recorded /\ clock - url_time[env_url] >= 180
                 offset == env_offset # 0 /\ clock - env_offset > 90
                 overridden == Last(sent'[r]) = timeout_message
             IN  /\ recorded => (overridden <=> (elapsed \/ offset))
                 /\ ~recorded => /\ ~overridden
                                 /\ Count(sent'[r], timeout_message) = 0]_vars

\* the last AGENT step was overridden on the offset alone: fewer than 180 s
\* have elapsed since the recorded start
C16_Witness ==
    \E r \in Runs :
        /\ sent[r] # <<>>
        /\ Last(sent[r]) = timeout_message
        /\ env_url \in DOMAIN url_time
        /\ previous_time[r] = url_time[env_url]
        /\ clock - url_time[env_url] < 180
        /\ env_offset # 0

Stopped == {"END", "recursion_error", "gateway_error"}

C19_StickyOverrun ==
    [][\A r \in Runs :
          /\ ( /\ AgentStepOf(r)
               /\ sent[r] # <<>>
               /\ Last(sent[r]) = timeout_message )
             => Last(sent'[r]) = timeout_message
          /\ (pc[r] \in Nodes /\ pc'[r] \notin Nodes)
             => \/ /\ pc'[r] = "END"
                   /\ AgentStepOf(r)
                   /\ Last(messages'[r]) = SaysEnd
                \/ /\ pc'[r] = "recursion_error"
                   /\ steps[r] >= MAX_RECURSION_DEPTH
                \/ /\ pc'[r] = "gateway_error"
                   /\ AgentStepOf(r)
                   /\ messages'[r] = messages[r]]_vars

\* a run still going after three AGENT steps, the last one overridden at 180 s
\* with an offset that was set before the first override
C19_Witness ==
    \E r \in Runs :
        /\ pc[r] \in Nodes
        /\ calls[r] >= 3
        /\ sent[r] = SubSeq(messages[r], 1, Len(messages[r]) - 1) \o <<timeout_message>>
        /\ env_offset \in {30, 120}
        /\ clock = 180

-----------------------------------------------------------------------------
(* What an AGENT step stores, under SpecLoop *)

\* C18: an AGENT step whose Gateway call returns appends exactly one message
\* to the stored conversation, the assistant's response, on either path; the
\* stored conversation never holds the override instruction or a URL
\* reminder; and the view an AGENT step sends holds the override instruction
\* at most once, as its last message.
C18_AgentGrowsByOne ==
    [][\A r \in Runs :
          /\ (AgentStepOf(r) /\ pc'[r] # "gateway_error")
             => /\ Len(messages'[r]) = Len(messages[r]) + 1
                /\ IsPrefix(messages[r], messages'[r])
                /\ Last(messages'[r]).type = "ai"
          /\ \A i \in 1..Len(messages'[r]) :
                /\ messages'[r][i] # timeout_message
                /\ ~IsReminder(messages'[r][i])
          /\ AgentStepOf(r)
             => \A i \in 1..(Len(sent'[r]) - 1) : sent'[r][i] # timeout_message]_vars

\* an overridden AGENT step has completed right after another AGENT step
\* that ran past the deadline too
C18_Witness ==
    \E r \in Runs :
        LET L == Len(messages[r])
        IN  /\ L >= 4
            /\ messages[r][L].type = "ai"
            /\ messages[r][L - 1].type = "ai"
            /\ sent[r] = SubSeq(messages[r], 1, L - 1) \o <<timeout_message>>
            /\ env_offset = 0
            /\ clock = 180

-----------------------------------------------------------------------------
(* Rejected requests, under SpecHttp *)

\* C20: a request answered 400 or 403 leaves the timing record, the image
\* cache, the url and offset configuration, and every run as they were.
C20_RejectedLeavesState ==
    [][(SolveStep /\ http'.status \in {400, 403})
          => /\ url_time' = url_time
             /\ BASE64_STORE' = BASE64_STORE
             /\ env_url' = env_url
             /\ env_offset' = env_offset
             /\ scheduled' = scheduled
             /\ quiz_url' = quiz_url
             /\ pc' = pc
             /\ messages' = messages]_vars

\* a request has just been answered 403 while a run is in progress, with a
\* start time recorded, an image cached and the offset set
C20_Witness ==
    /\ http.status = 403
    /\ \E r \in Runs : pc[r] = "agent"
    /\ env_url \in DOMAIN url_time
    /\ BASE64_STORE # {}
    /\ env_offset # 0

=============================================================================
